---- MODULE Spec2Model ----
(***************************************************************************)
(* A model of bifrost's RPC framing and dispatch (src/rpc/mod.rs), of the  *)
(* generic replicated value (src/store/value.rs) and of the membership     *)
(* service with its heartbeat (src/membership/member.rs).                  *)
(*                                                                         *)
(* The components do not share state, so each has its own variables, its   *)
(* own initial condition and next-state relation, and its own              *)
(* specification (SpecWire, ...), in which the other components stay in    *)
(* their initial state.                                                    *)
(***************************************************************************)
EXTENDS Integers, Sequences, FiniteSets, TLC

VARIABLES
    \* ---- framing functions applied to drawn inputs (rpc/mod.rs:64-100, 177-182)
    w_pc,        \* which function is applied next
    w_svr_id,    \* the service id handed to prepend_u64
    w_data,      \* the payload handed to prepend_u64
    w_bytes,     \* the framed request
    w_head,      \* what read_u64_head returned
    w_res,       \* the handler's result handed to encode_res
    w_enc,       \* what encode_res returned
    w_io,        \* what the transport handed to decode_res
    w_dec,       \* what decode_res returned
    \* ---- one Server and the RPCClients connected to it (rpc/mod.rs:102-202)
    r_services,  \* Server.services: service id -> handler
    r_readers,   \* the connections whose request closure holds services.read()
    r_shortcuts, \* the shortcut directory: published (handler, server id, service id)
    r_apc,       \* the task calling register_service: where it is
    r_areg,      \* the (service id, handler) it registers
    r_nadmin,    \* how many register_service and remove_service calls were made
    r_mutex,     \* RPCClient.client: the task holding the mutex, 0 when free
    r_tpc,       \* each calling task: where it is in send_async
    r_tcl,       \* the RPCClient it calls
    r_tsvc,      \* the service id it calls
    r_tdata,     \* the bytes it sends
    r_tres,      \* what send_async returned to it
    r_reqq,      \* per connection: request frames written, not yet read
    r_respq,     \* per connection: response frames written, not yet read
    r_reset,     \* per connection: whether the transport failed
    r_spc,       \* per connection: where the server's request closure is
    r_shead,     \* per connection: the request the closure is working on
    r_shandler,  \* per connection: the handler whose dispatch is in flight
    r_log,       \* the dispatches invoked: (handler, service id, payload)
    \* ---- one ClientPool (rpc/mod.rs:204-231)
    p_clients,   \* ClientPool.clients: server id -> RPCClient
    p_holder,    \* the task holding the pool mutex, 0 when free
    p_pc,        \* each calling task: where it is in get_by_id
    p_id,        \* the server id it asks for
    p_ret,       \* what its last get_by_id returned
    p_calls,     \* how many get_by_id calls it has made
    p_next,      \* the next RPCClient a successful connect creates
    p_conns,     \* the connections established: (server id, RPCClient)
    p_returned,  \* the clients get_by_id returned: (server id, RPCClient)
    \* ---- one Value and a subscriber of its on_changed (store/value.rs:11-60)
    v_val,       \* Value.val
    v_init,      \* the value it was constructed with
    v_id,        \* Value.id
    v_callback,  \* whether Value.callback is Some
    v_pc,        \* "set" while set holds &mut self between notify and assignment
    v_arg,       \* the argument of the set in progress
    v_notes,     \* the on_changed notifications emitted, in order
    v_ncmd,      \* how many commands (set, recover) were applied
    v_ncb,       \* how many set commands were applied with a callback attached
    v_last,      \* the last command: its argument, the value before, callback?
    v_snap,      \* what the last snapshot() returned
    v_snapof,    \* the value the Value held at that snapshot()
    o_pc,        \* the subscriber: "get" while its get() is issued and not answered
    o_seen,      \* the last notification it observed (index in v_notes)
    o_got,       \* what its last get() returned, and what held then
    \* ---- MemberServices and the replication layer (membership/member.rs)
    m_leader,    \* the node that holds leadership
    m_members,   \* the membership state machine: the ids that joined
    m_pc,        \* per service: where its owner is (new, leave, dropped)
    m_join,      \* per service: the result of its join command
    m_closed,    \* MemberService.closed
    m_hb,        \* per service: where its heartbeat task is
    m_rpc,       \* the endpoint the task resolved in this iteration
    m_delay,     \* the delay the task sleeps, in ms
    m_ping,      \* the last ping the task sent, and where the one before went
    m_moved,     \* whether leadership moved since the iteration began
    m_after,     \* pings sent with closed set (counted up to 2)
    m_lcmd,      \* the leave command of the leave() in progress
    m_leaveres,  \* what the leave() calls returned, in order
    m_drop,      \* where the destructor and the task it spawns are
    m_dcmd       \* the leave command of the destructor's task

wireVars == <<w_pc, w_svr_id, w_data, w_bytes, w_head, w_res, w_enc, w_io, w_dec>>

serverVars == <<r_services, r_readers, r_shortcuts, r_apc, r_areg, r_nadmin>>
connVars == <<r_reqq, r_respq, r_reset, r_spc, r_shead, r_shandler, r_log>>
taskVars == <<r_mutex, r_tpc, r_tcl, r_tsvc, r_tdata, r_tres>>
rpcVars == <<serverVars, connVars, taskVars>>

poolVars == <<p_clients, p_holder, p_pc, p_id, p_ret, p_calls, p_next, p_conns,
              p_returned>>

valueVars == <<v_val, v_init, v_id, v_callback, v_pc, v_arg, v_notes, v_ncmd, v_ncb,
               v_last, v_snap, v_snapof, o_pc, o_seen, o_got>>

memberVars == <<m_leader, m_members, m_pc, m_join, m_closed, m_hb, m_rpc, m_delay,
                m_ping, m_moved, m_after, m_lcmd, m_leaveres, m_drop, m_dcmd>>

vars == <<wireVars, rpcVars, poolVars, valueVars, memberVars>>

\* What the actions of one component leave alone: the other components.
notWire == <<rpcVars, poolVars, valueVars, memberVars>>
notRpc == <<wireVars, poolVars, valueVars, memberVars>>
notPool == <<wireVars, rpcVars, valueVars, memberVars>>
notValue == <<wireVars, rpcVars, poolVars, memberVars>>
notMember == <<wireVars, rpcVars, poolVars, valueVars>>

(***************************************************************************)
(* Bounds                                                                  *)
(***************************************************************************)
\* Longest payload drawn as an input of the framing functions.
MaxLen == 2

(***************************************************************************)
(* Values                                                                  *)
(***************************************************************************)
\* The bytes payloads are drawn from: the three status bytes the protocol
\* names, 255 (Other) and one byte that is no status.
ByteVals == {0, 1, 2, 7, 255}

\* The service ids drawn as inputs of the framing functions.  TLC's integers
\* are 32 bits wide, so the ids stay below 2^31; they are chosen to fill one,
\* two, three and four bytes of the eight the header has.
SvcIds == {0, 1, 255, 256, 65536, 16909060, 2147483647}

RECURSIVE SeqsUpTo(_, _)
SeqsUpTo(S, n) ==
    IF n = 0 THEN {<<>>}
    ELSE LET shorter == SeqsUpTo(S, n - 1)
         IN  shorter \cup {Append(s, b) : s \in {x \in shorter : Len(x) = n - 1}, b \in S}

\* The id of a function of a service: the service macros put it in front of
\* the arguments, in eight bytes.
FuncId == 3

\* Byte strings of up to MaxLen bytes.
ShortBytes == SeqsUpTo(ByteVals, MaxLen)

\* Result<BytesMut, _>: one record shape for Ok and Err.
Ok(buf) == [tag |-> "Ok", buf |-> buf, err |-> "None"]
Err(e) == [tag |-> "Err", buf |-> <<>>, err |-> e]
\* An index out of bounds: the task panics.
Panic == [tag |-> "Panic", buf |-> <<>>, err |-> "None"]
NoRes == [tag |-> "NoRes", buf |-> <<>>, err |-> "None"]

RPCRequestError == {"FunctionIdNotFound", "ServiceIdNotFound", "Other"}

(***************************************************************************)
(* The framing functions                                                   *)
(***************************************************************************)
\* BufMut::put_u64_le: the n low bytes of num, least significant first.
RECURSIVE put_le(_, _)
put_le(num, n) ==
    IF n = 0 THEN <<>> ELSE <<num % 256>> \o put_le(num \div 256, n - 1)

\* Buf::get_u64_le over the bytes b: b[1] is the least significant.
RECURSIVE get_le(_)
get_le(b) ==
    IF b = <<>> THEN 0 ELSE b[1] + 256 * get_le(Tail(b))

\* bytes.put_u64_le(num); bytes.unsplit(data)
prepend_u64(num, data) == put_le(num, 8) \o data

\* The payloads drawn as inputs: short byte strings, and the requests of a
\* service client, which start with the function id.
Payloads == ShortBytes \cup {prepend_u64(FuncId, b) : b \in ShortBytes}

HeadPanic == [panic |-> TRUE, num |-> 0, data |-> <<>>]

\* data.get_u64_le() takes the first eight bytes off data and panics when
\* data is shorter; LittleEndian::read_u64(data.as_ref()) then reads eight
\* bytes of what is left, drops the number, and panics when fewer than
\* eight bytes are left.
read_u64_head(data) ==
    IF Len(data) < 8 THEN HeadPanic
    ELSE LET num  == get_le(SubSeq(data, 1, 8))
             rest == SubSeq(data, 9, Len(data))
         IN  IF Len(rest) < 8 THEN HeadPanic
             ELSE [panic |-> FALSE, num |-> num, data |-> rest]

\* The ids of the two NotFound errors are exchanged.
err_id_swapped(e) ==
    CASE e = "FunctionIdNotFound" -> 2
      [] e = "ServiceIdNotFound" -> 1
      [] OTHER -> 255

\* let err_id = match e { .. }
err_id(e) ==
    CASE e = "FunctionIdNotFound" -> 1
      [] e = "ServiceIdNotFound" -> 2
      [] OTHER -> 255

encode_res(res) ==
    IF res.tag = "Ok" THEN <<0>> \o res.buf ELSE <<err_id(res.err)>>

\* decode_res of an io::Result: res.tag = "Err" is the transport's io::Error.
decode_res(res) ==
    IF res.tag = "Ok"
    THEN IF res.buf = <<>> THEN Panic
         ELSE IF res.buf[1] = 0 THEN Ok(Tail(res.buf))
         ELSE CASE res.buf[1] = 1 -> Err("FunctionIdNotFound")
                [] res.buf[1] = 2 -> Err("ServiceIdNotFound")
                [] OTHER -> Err("Other")
    ELSE Err("IOError")

(***************************************************************************)
(* The framing functions applied to drawn inputs                           *)
(***************************************************************************)
NoHead == [panic |-> FALSE, num |-> 0, data |-> <<>>]

WireIdle ==
    /\ w_pc = "start"
    /\ w_svr_id = 0
    /\ w_data = <<>>
    /\ w_bytes = <<>>
    /\ w_head = NoHead
    /\ w_res = NoRes
    /\ w_enc = <<>>
    /\ w_io = NoRes
    /\ w_dec = NoRes

WireInit ==
    /\ w_pc = "start"
    /\ w_svr_id \in SvcIds
    /\ w_data \in Payloads
    /\ w_bytes = <<>>
    /\ w_head = NoHead
    /\ w_res = NoRes
    /\ w_enc = <<>>
    /\ w_io = NoRes
    /\ w_dec = NoRes

\* The client frames the request.
WirePrepend ==
    /\ w_pc = "start"
    /\ w_bytes' = prepend_u64(w_svr_id, w_data)
    /\ w_pc' = "framed"
    /\ UNCHANGED <<w_svr_id, w_data, w_head, w_res, w_enc, w_io, w_dec>>
    /\ UNCHANGED notWire

\* The server takes the header off the request.
WireReadHead ==
    /\ w_pc = "framed"
    /\ w_head' = read_u64_head(w_bytes)
    /\ w_pc' = "parsed"
    /\ UNCHANGED <<w_svr_id, w_data, w_bytes, w_res, w_enc, w_io, w_dec>>
    /\ UNCHANGED notWire

\* The handler's result, or the server's own ServiceIdNotFound, is encoded.
WireEncode ==
    /\ w_pc = "parsed"
    /\ \E r \in {Ok(b) : b \in ShortBytes} \cup {Err(e) : e \in RPCRequestError} :
          /\ w_res' = r
          /\ w_enc' = encode_res(r)
    /\ w_pc' = "encoded"
    /\ UNCHANGED <<w_svr_id, w_data, w_bytes, w_head, w_io, w_dec>>
    /\ UNCHANGED notWire

\* The client decodes what the transport returned: the response, or an
\* io::Error.
WireDecode ==
    /\ w_pc = "encoded"
    /\ \E io \in {Ok(w_enc), Err("io")} :
          /\ w_io' = io
          /\ w_dec' = decode_res(io)
    /\ w_pc' = "decoded"
    /\ UNCHANGED <<w_svr_id, w_data, w_bytes, w_head, w_res, w_enc>>
    /\ UNCHANGED notWire

\* decode_res applied to bytes no encode_res produced.
WireDecodeRaw ==
    /\ w_pc = "start"
    /\ \E raw \in ShortBytes :
          /\ w_enc' = raw
          /\ w_io' = Ok(raw)
          /\ w_dec' = decode_res(Ok(raw))
    /\ w_pc' = "rawdecoded"
    /\ UNCHANGED <<w_svr_id, w_data, w_bytes, w_head, w_res>>
    /\ UNCHANGED notWire

\* read_u64_head applied to bytes no prepend_u64 produced.
WireReadRaw ==
    /\ w_pc = "start"
    /\ w_bytes' = w_data
    /\ w_head' = read_u64_head(w_data)
    /\ w_pc' = "rawparsed"
    /\ UNCHANGED <<w_svr_id, w_data, w_res, w_enc, w_io, w_dec>>
    /\ UNCHANGED notWire

WireNext ==
    \/ WirePrepend
    \/ WireReadHead
    \/ WireEncode
    \/ WireDecode
    \/ WireDecodeRaw
    \/ WireReadRaw

(***************************************************************************)
(* Server, RPCClient and the connections between them                      *)
(***************************************************************************)
\* The register_service and remove_service calls made on the Server.
MaxAdminOps == 2

\* The tasks calling send_async, one call each.
Tasks == {1, 2}
\* The RPCClients, each with a connection of its own to the Server.
Clients == {1, 2}
\* The RPCClients are alike, so they are numbered in the order the tasks
\* take them: task 1 calls client 1, task 2 the same client or another.
ClientsOf(t) == {c \in Clients : c <= t}
\* The service ids the tasks call and register_service registers.
ServiceIds == {0, 1}
\* The handlers (Arc<dyn RPCService>), each known by the byte it answers with.
Handlers == {11, 12}
NoHandler == 0

NoReg == <<0, NoHandler>>

\* server_id: hash_str(address), the id of the one Server.
server_id == 7

\* DISABLE_SHORTCUT, a constant of the crate root.
DISABLE_SHORTCUT == FALSE

\* The request of a service client: the function id, then the task's own
\* number as the argument, as the tests send `time: i`.
ReqData(t) == prepend_u64(FuncId, <<t>>)

\* A request without a function id: send_async takes any bytes.
RawData(t) == <<t>>

\* RPCService::dispatch of handler h: the handler's byte, then the request,
\* as the tests' HelloServer answers with the request's fields.
dispatch(h, data) == Ok(<<h>> \o data)

\* svr_map.get(&svr_id)
get_service(id) == IF id \in DOMAIN r_services THEN r_services[id] ELSE NoHandler

\* The response of the request closure for an id without a handler.
NotFoundResponseOther == encode_res(Err("Other"))

NotFoundResponse == encode_res(Err("ServiceIdNotFound"))

\* The mutex is taken whoever holds it.
MutexFreeAlways(c) == TRUE

\* self.client.lock().await returns once no task holds the mutex.
MutexFree(c) == r_mutex[c] = 0

\* The server writes a response back on connection c; on a failed
\* transport it is lost.
WriteBack(c, resp) ==
    IF r_reset[c] THEN r_respq[c] ELSE Append(r_respq[c], resp)

\* services.write().await returns once no read guard is alive.
WriteLockFree == r_readers = {}

RpcInit ==
    /\ r_services = [s \in ServiceIds |-> NoHandler]
    /\ r_readers = {}
    /\ r_shortcuts = {}
    /\ r_apc = "idle"
    /\ r_areg = NoReg
    /\ r_nadmin = 0
    /\ r_mutex = [c \in Clients |-> 0]
    /\ r_tpc = [t \in Tasks |-> "idle"]
    /\ r_tcl = [t \in Tasks |-> 0]
    /\ r_tsvc = [t \in Tasks |-> 0]
    /\ r_tdata = [t \in Tasks |-> <<>>]
    /\ r_tres = [t \in Tasks |-> NoRes]
    /\ r_reqq = [c \in Clients |-> <<>>]
    /\ r_respq = [c \in Clients |-> <<>>]
    /\ r_reset = [c \in Clients |-> FALSE]
    /\ r_spc = [c \in Clients |-> "idle"]
    /\ r_shead = [c \in Clients |-> NoHead]
    /\ r_shandler = [c \in Clients |-> NoHandler]
    /\ r_log = {}

\* register_service, up to the first await: the shortcut entry is published
\* unless shortcuts are disabled.
register_service_shortcut(id, h) ==
    /\ r_apc = "idle"
    /\ r_nadmin < MaxAdminOps
    /\ r_nadmin' = r_nadmin + 1
    /\ r_shortcuts' = IF DISABLE_SHORTCUT THEN r_shortcuts
                      ELSE r_shortcuts \cup {<<h, server_id, id>>}
    /\ r_apc' = "insert"
    /\ r_areg' = <<id, h>>
    /\ UNCHANGED <<r_services, r_readers, connVars, taskVars>>
    /\ UNCHANGED notRpc

\* An id that is present keeps the handler it has.
register_service_insert_keep ==
    /\ r_apc = "insert"
    /\ WriteLockFree
    /\ r_services' = IF r_services[r_areg[1]] # NoHandler THEN r_services
                     ELSE [r_services EXCEPT ![r_areg[1]] = r_areg[2]]
    /\ r_apc' = "idle"
    /\ r_areg' = NoReg
    /\ UNCHANGED <<r_readers, r_shortcuts, r_nadmin, connVars, taskVars>>
    /\ UNCHANGED notRpc

\* self.services.write().await.insert(service_id, service)
register_service_insert ==
    /\ r_apc = "insert"
    /\ WriteLockFree
    /\ r_services' = [r_services EXCEPT ![r_areg[1]] = r_areg[2]]
    /\ r_apc' = "idle"
    /\ r_areg' = NoReg
    /\ UNCHANGED <<r_readers, r_shortcuts, r_nadmin, connVars, taskVars>>
    /\ UNCHANGED notRpc

\* The removal takes the shortcut entries of the id with it.
remove_service_evict(id) ==
    /\ r_apc = "idle"
    /\ r_nadmin < MaxAdminOps
    /\ r_nadmin' = r_nadmin + 1
    /\ WriteLockFree
    /\ r_services' = [r_services EXCEPT ![id] = NoHandler]
    /\ r_shortcuts' = {e \in r_shortcuts : e[3] # id}
    /\ UNCHANGED <<r_readers, r_apc, r_areg, connVars, taskVars>>
    /\ UNCHANGED notRpc

\* self.services.write().await.remove(&service_id)
remove_service(id) ==
    /\ r_apc = "idle"
    /\ r_nadmin < MaxAdminOps
    /\ r_nadmin' = r_nadmin + 1
    /\ WriteLockFree
    /\ r_services' = [r_services EXCEPT ![id] = NoHandler]
    /\ UNCHANGED <<r_readers, r_shortcuts, r_apc, r_areg, connVars, taskVars>>
    /\ UNCHANGED notRpc

\* send_async: task t calls client c with the bytes data for service id svc
\* and takes the mutex.
send_async_lock(t, c, svc, data) ==
    /\ r_tpc[t] = "idle"
    /\ MutexFree(c)
    /\ r_mutex' = [r_mutex EXCEPT ![c] = t]
    /\ r_tpc' = [r_tpc EXCEPT ![t] = "locked"]
    /\ r_tcl' = [r_tcl EXCEPT ![t] = c]
    /\ r_tsvc' = [r_tsvc EXCEPT ![t] = svc]
    /\ r_tdata' = [r_tdata EXCEPT ![t] = data]
    /\ UNCHANGED <<r_tres, serverVars, connVars>>
    /\ UNCHANGED notRpc

\* prepend_u64 and the write half of Client::send_msg; on a failed
\* transport send_msg returns the io::Error, which decode_res passes on.
send_async_write(t) ==
    /\ r_tpc[t] = "locked"
    /\ IF r_reset[r_tcl[t]]
       THEN /\ r_tres' = [r_tres EXCEPT ![t] = decode_res(Err("io"))]
            /\ r_mutex' = [r_mutex EXCEPT ![r_tcl[t]] = 0]
            /\ r_tpc' = [r_tpc EXCEPT ![t] = "done"]
            /\ UNCHANGED r_reqq
       ELSE /\ r_reqq' = [r_reqq EXCEPT ![r_tcl[t]] =
                             Append(@, prepend_u64(r_tsvc[t], r_tdata[t]))]
            /\ r_tpc' = [r_tpc EXCEPT ![t] = "written"]
            /\ UNCHANGED <<r_tres, r_mutex>>
    /\ UNCHANGED <<r_tcl, r_tsvc, r_tdata, r_respq, r_reset, r_spc, r_shead, r_shandler,
                   r_log, serverVars>>
    /\ UNCHANGED notRpc

\* The read gives up after a while: send_async returns an error though
\* no response came and the transport did not fail.
send_async_read_timeout(t) ==
    /\ r_tpc[t] = "written"
    /\ IF r_reset[r_tcl[t]] \/ r_respq[r_tcl[t]] = <<>>
       THEN /\ r_tres' = [r_tres EXCEPT ![t] = decode_res(Err("io"))]
            /\ UNCHANGED r_respq
       ELSE /\ r_tres' = [r_tres EXCEPT ![t] =
                             decode_res(Ok(Head(r_respq[r_tcl[t]])))]
            /\ r_respq' = [r_respq EXCEPT ![r_tcl[t]] = Tail(@)]
    /\ r_mutex' = [r_mutex EXCEPT ![r_tcl[t]] = 0]
    /\ r_tpc' = [r_tpc EXCEPT ![t] = "done"]
    /\ UNCHANGED <<r_tcl, r_tsvc, r_tdata, r_reqq, r_reset, r_spc, r_shead, r_shandler,
                   r_log, serverVars>>
    /\ UNCHANGED notRpc

\* The read half of Client::send_msg, decode_res, and the guard's drop.
send_async_read(t) ==
    /\ r_tpc[t] = "written"
    /\ IF r_reset[r_tcl[t]]
       THEN /\ r_tres' = [r_tres EXCEPT ![t] = decode_res(Err("io"))]
            /\ UNCHANGED r_respq
       ELSE /\ r_respq[r_tcl[t]] # <<>>
            /\ r_tres' = [r_tres EXCEPT ![t] =
                             decode_res(Ok(Head(r_respq[r_tcl[t]])))]
            /\ r_respq' = [r_respq EXCEPT ![r_tcl[t]] = Tail(@)]
    /\ r_mutex' = [r_mutex EXCEPT ![r_tcl[t]] = 0]
    /\ r_tpc' = [r_tpc EXCEPT ![t] = "done"]
    /\ UNCHANGED <<r_tcl, r_tsvc, r_tdata, r_reqq, r_reset, r_spc, r_shead, r_shandler,
                   r_log, serverVars>>
    /\ UNCHANGED notRpc

\* The transport of connection c fails: what was in flight is lost, and
\* every send_msg on it returns an io::Error from now on.
conn_reset(c) ==
    /\ ~r_reset[c]
    /\ r_reset' = [r_reset EXCEPT ![c] = TRUE]
    /\ r_reqq' = [r_reqq EXCEPT ![c] = <<>>]
    /\ r_respq' = [r_respq EXCEPT ![c] = <<>>]
    /\ UNCHANGED <<r_spc, r_shead, r_shandler, r_log, serverVars, taskVars>>
    /\ UNCHANGED notRpc

\* The server reads the next message of connection c and takes its header;
\* a panic of read_u64_head ends the closure without a response.
listen_read(c) ==
    /\ r_spc[c] = "idle"
    /\ r_reqq[c] # <<>>
    /\ r_shead' = [r_shead EXCEPT ![c] = read_u64_head(Head(r_reqq[c]))]
    /\ r_reqq' = [r_reqq EXCEPT ![c] = Tail(@)]
    /\ r_spc' = [r_spc EXCEPT ![c] =
                    IF read_u64_head(Head(r_reqq[c])).panic THEN "panicked"
                    ELSE "lookup"]
    /\ UNCHANGED <<r_respq, r_reset, r_shandler, r_log, serverVars, taskVars>>
    /\ UNCHANGED notRpc

\* The read guard is dropped after the lookup, before the dispatch.
listen_lookup_unguarded(c) ==
    /\ r_spc[c] = "lookup"
    /\ LET h == get_service(r_shead[c].num)
       IN  IF h # NoHandler
           THEN /\ r_shandler' = [r_shandler EXCEPT ![c] = h]
                /\ r_log' = r_log \cup {<<h, r_shead[c].num, r_shead[c].data>>}
                /\ r_spc' = [r_spc EXCEPT ![c] = "dispatch"]
                /\ UNCHANGED r_respq
           ELSE /\ r_respq' = [r_respq EXCEPT ![c] = WriteBack(c, NotFoundResponse)]
                /\ r_spc' = [r_spc EXCEPT ![c] = "idle"]
                /\ UNCHANGED <<r_shandler, r_log>>
    /\ UNCHANGED <<r_services, r_readers, r_shortcuts, r_apc, r_areg, r_nadmin, r_reqq,
                   r_reset, r_shead, taskVars>>
    /\ UNCHANGED notRpc

\* services.read().await and svr_map.get(&svr_id): with a handler, its
\* dispatch starts under the read guard; without, the closure answers
\* ServiceIdNotFound and the guard is dropped.
listen_lookup(c) ==
    /\ r_spc[c] = "lookup"
    /\ LET h == get_service(r_shead[c].num)
       IN  IF h # NoHandler
           THEN /\ r_readers' = r_readers \cup {c}
                /\ r_shandler' = [r_shandler EXCEPT ![c] = h]
                /\ r_log' = r_log \cup {<<h, r_shead[c].num, r_shead[c].data>>}
                /\ r_spc' = [r_spc EXCEPT ![c] = "dispatch"]
                /\ UNCHANGED r_respq
           ELSE /\ r_respq' = [r_respq EXCEPT ![c] = WriteBack(c, NotFoundResponse)]
                /\ r_spc' = [r_spc EXCEPT ![c] = "idle"]
                /\ UNCHANGED <<r_readers, r_shandler, r_log>>
    /\ UNCHANGED <<r_services, r_shortcuts, r_apc, r_areg, r_nadmin, r_reqq, r_reset,
                   r_shead, taskVars>>
    /\ UNCHANGED notRpc

\* The dispatch returns: encode_res, the guard's drop and the write back.
listen_respond(c) ==
    /\ r_spc[c] = "dispatch"
    /\ r_respq' = [r_respq EXCEPT ![c] =
                      WriteBack(c, encode_res(dispatch(r_shandler[c], r_shead[c].data)))]
    /\ r_readers' = r_readers \ {c}
    /\ r_shandler' = [r_shandler EXCEPT ![c] = NoHandler]
    /\ r_spc' = [r_spc EXCEPT ![c] = "idle"]
    /\ UNCHANGED <<r_services, r_shortcuts, r_apc, r_areg, r_nadmin, r_reqq, r_reset,
                   r_shead, r_log, taskVars>>
    /\ UNCHANGED notRpc

RpcNext ==
    \/ \E id \in ServiceIds, h \in Handlers : register_service_shortcut(id, h)
    \/ register_service_insert
    \/ \E id \in ServiceIds : remove_service(id)
    \/ \E t \in Tasks, svc \in ServiceIds :
          \E c \in ClientsOf(t), data \in {ReqData(t), RawData(t)} :
              send_async_lock(t, c, svc, data)
    \/ \E t \in Tasks : send_async_write(t)
    \/ \E t \in Tasks : send_async_read(t)
    \/ \E c \in Clients : conn_reset(c)
    \/ \E c \in Clients : listen_read(c)
    \/ \E c \in Clients : listen_lookup(c)
    \/ \E c \in Clients : listen_respond(c)

(***************************************************************************)
(* ClientPool                                                              *)
(***************************************************************************)
\* The get_by_id calls each task makes, one after the other.
MaxPoolCalls == 2

\* The tasks calling get_by_id on the one pool.
PoolTasks == {1, 2}
\* The server ids they ask for.
PoolIds == {1, 2}
\* No RPCClient: the map has no entry, the call has not returned.
NoClient == 0
\* get_by_id returned the io::Error of the connect.
ConnectErr == -1

\* The pool mutex is taken whoever holds it.
PoolLockFreeAlways == TRUE

\* self.clients.lock().await returns once no task holds the mutex.
PoolLockFree == p_holder = 0

PoolInit ==
    /\ p_clients = [i \in PoolIds |-> NoClient]
    /\ p_holder = 0
    /\ p_pc = [t \in PoolTasks |-> "idle"]
    /\ p_id = [t \in PoolTasks |-> 0]
    /\ p_ret = [t \in PoolTasks |-> NoClient]
    /\ p_calls = [t \in PoolTasks |-> 0]
    /\ p_next = 1
    /\ p_conns = {}
    /\ p_returned = {}

\* get_by_id(server_id, addr_fn) is called by task t.
get_by_id_call(t, id) ==
    /\ p_pc[t] = "idle"
    /\ p_calls[t] < MaxPoolCalls
    /\ p_pc' = [p_pc EXCEPT ![t] = "waiting"]
    /\ p_id' = [p_id EXCEPT ![t] = id]
    /\ p_ret' = [p_ret EXCEPT ![t] = NoClient]
    /\ p_calls' = [p_calls EXCEPT ![t] = @ + 1]
    /\ UNCHANGED <<p_clients, p_holder, p_next, p_conns, p_returned>>
    /\ UNCHANGED notPool

\* A call for an id that is in the map goes on without the mutex.
get_by_id_lock_cached(t) ==
    /\ p_pc[t] = "waiting"
    /\ PoolLockFree \/ p_clients[p_id[t]] # NoClient
    /\ p_holder' = IF PoolLockFree THEN t ELSE p_holder
    /\ p_pc' = [p_pc EXCEPT ![t] = "locked"]
    /\ UNCHANGED <<p_clients, p_id, p_ret, p_calls, p_next, p_conns, p_returned>>
    /\ UNCHANGED notPool

\* self.clients.lock().await: the call takes the pool mutex.
get_by_id_lock(t) ==
    /\ p_pc[t] = "waiting"
    /\ PoolLockFree
    /\ p_holder' = t
    /\ p_pc' = [p_pc EXCEPT ![t] = "locked"]
    /\ UNCHANGED <<p_clients, p_id, p_ret, p_calls, p_next, p_conns, p_returned>>
    /\ UNCHANGED notPool

\* The guard is dropped after the lookup, before the connect is awaited.
get_by_id_lookup_unlock(t) ==
    /\ p_pc[t] = "locked"
    /\ IF p_clients[p_id[t]] # NoClient
       THEN /\ p_ret' = [p_ret EXCEPT ![t] = p_clients[p_id[t]]]
            /\ p_returned' = p_returned \cup {<<p_id[t], p_clients[p_id[t]]>>}
            /\ p_pc' = [p_pc EXCEPT ![t] = "idle"]
       ELSE /\ p_pc' = [p_pc EXCEPT ![t] = "connecting"]
            /\ UNCHANGED <<p_ret, p_returned>>
    /\ p_holder' = 0
    /\ UNCHANGED <<p_clients, p_id, p_calls, p_next, p_conns>>
    /\ UNCHANGED notPool

\* clients.contains_key(&server_id): the cached client is returned and the
\* guard dropped, or RPCClient::new_async is awaited under the guard.
get_by_id_lookup(t) ==
    /\ p_pc[t] = "locked"
    /\ IF p_clients[p_id[t]] # NoClient
       THEN /\ p_ret' = [p_ret EXCEPT ![t] = p_clients[p_id[t]]]
            /\ p_returned' = p_returned \cup {<<p_id[t], p_clients[p_id[t]]>>}
            /\ p_holder' = 0
            /\ p_pc' = [p_pc EXCEPT ![t] = "idle"]
       ELSE /\ p_pc' = [p_pc EXCEPT ![t] = "connecting"]
            /\ UNCHANGED <<p_ret, p_returned, p_holder>>
    /\ UNCHANGED <<p_clients, p_id, p_calls, p_next, p_conns>>
    /\ UNCHANGED notPool

\* The connect succeeded: a new RPCClient is inserted and returned.
get_by_id_connected(t) ==
    /\ p_pc[t] = "connecting"
    /\ p_conns' = p_conns \cup {<<p_id[t], p_next>>}
    /\ p_clients' = [p_clients EXCEPT ![p_id[t]] = p_next]
    /\ p_ret' = [p_ret EXCEPT ![t] = p_next]
    /\ p_returned' = p_returned \cup {<<p_id[t], p_next>>}
    /\ p_next' = p_next + 1
    /\ p_holder' = 0
    /\ p_pc' = [p_pc EXCEPT ![t] = "idle"]
    /\ UNCHANGED <<p_id, p_calls>>
    /\ UNCHANGED notPool

\* The io::Error is returned while the guard stays held.
get_by_id_failed_locked(t) ==
    /\ p_pc[t] = "connecting"
    /\ p_ret' = [p_ret EXCEPT ![t] = ConnectErr]
    /\ p_pc' = [p_pc EXCEPT ![t] = "idle"]
    /\ UNCHANGED <<p_holder, p_clients, p_id, p_calls, p_next, p_conns, p_returned>>
    /\ UNCHANGED notPool

\* The connect failed: `?` returns the io::Error and drops the guard.
get_by_id_failed(t) ==
    /\ p_pc[t] = "connecting"
    /\ p_ret' = [p_ret EXCEPT ![t] = ConnectErr]
    /\ p_holder' = 0
    /\ p_pc' = [p_pc EXCEPT ![t] = "idle"]
    /\ UNCHANGED <<p_clients, p_id, p_calls, p_next, p_conns, p_returned>>
    /\ UNCHANGED notPool

PoolNext ==
    \/ \E t \in PoolTasks, id \in PoolIds : get_by_id_call(t, id)
    \/ \E t \in PoolTasks : get_by_id_lock(t)
    \/ \E t \in PoolTasks : get_by_id_lookup(t)
    \/ \E t \in PoolTasks : get_by_id_connected(t)
    \/ \E t \in PoolTasks : get_by_id_failed(t)

(***************************************************************************)
(* store::Value, the generic replicated value (instantiated with String)   *)
(***************************************************************************)
\* The commands (set, recover) applied to the Value.
MaxCmds == 3

\* The values of type $t: strings of different lengths.
Vals == {<<>>, <<97>>, <<98, 97>>}
\* The id the Value was constructed with.
ValueId == 5

\* No snapshot() was taken yet (a snapshot has eight bytes at least).
NoSnapshot == <<>>
NoCmd == [cmd |-> "new", arg |-> <<>>, old |-> <<>>, cb |-> FALSE]
NoNote == [old |-> <<>>, new |-> <<>>, n |-> 0]
NoGot == [val |-> <<>>, ver |-> 0, note |-> NoNote, last |-> [NoCmd EXCEPT !.cmd = "none"]]

\* utils::bincode::serialize of a String: its length in eight bytes, then
\* its bytes.
serialize(val) == put_le(Len(val), 8) \o val

\* utils::bincode::deserialize of a String.
deserialize(data) == SubSeq(data, 9, 8 + get_le(SubSeq(data, 1, 8)))

\* The notification carries the new value twice.
on_changed_msg_new(cur, v) == [old |-> v, new |-> v]

\* (old, v.clone()), where old = self.val.clone()
on_changed_msg(cur, v) == [old |-> cur, new |-> v]

\* SMCallback::notify: the message is put on the subscription channel; n
\* is the number of the command that emitted it.
notify(msg, n) == Append(v_notes, [old |-> msg.old, new |-> msg.new, n |-> n])

\* A method taking &self runs only while no method taking &mut self does.
SharedBorrow == v_pc = "idle"

\* The value is left as it was.
assign_skip(v) == v_val

\* self.val = v
assign(v) == v

\* How many commands have assigned their value.
Committed == v_ncmd - (IF v_pc = "set" THEN 1 ELSE 0)

ValueIdle ==
    /\ v_val = <<>>
    /\ v_init = <<>>
    /\ v_id = ValueId
    /\ v_callback = FALSE
    /\ v_pc = "idle"
    /\ v_arg = <<>>
    /\ v_notes = <<>>
    /\ v_ncmd = 0
    /\ v_ncb = 0
    /\ v_last = NoCmd
    /\ v_snap = NoSnapshot
    /\ v_snapof = <<>>
    /\ o_pc = "idle"
    /\ o_seen = 0
    /\ o_got = NoGot

\* Value::new(id, val)
ValueInit ==
    /\ v_val \in Vals
    /\ v_init = v_val
    /\ v_id = ValueId
    /\ v_callback = FALSE
    /\ v_pc = "idle"
    /\ v_arg = <<>>
    /\ v_notes = <<>>
    /\ v_ncmd = 0
    /\ v_ncb = 0
    /\ v_last = NoCmd
    /\ v_snap = NoSnapshot
    /\ v_snapof = <<>>
    /\ o_pc = "idle"
    /\ o_seen = 0
    /\ o_got = NoGot

\* init_callback: self.callback = Some(SMCallback::new(..).await)
init_callback ==
    /\ v_pc = "idle"
    /\ ~v_callback
    /\ v_callback' = TRUE
    /\ UNCHANGED <<v_val, v_init, v_id, v_pc, v_arg, v_notes, v_ncmd, v_ncb, v_last,
                   v_snap, v_snapof, o_pc, o_seen, o_got>>
    /\ UNCHANGED notValue

\* set(v), up to the assignment: with a callback, (old, v) is notified.
set_notify(v) ==
    /\ v_pc = "idle"
    /\ v_ncmd < MaxCmds
    /\ v_pc' = "set"
    /\ v_arg' = v
    /\ v_ncmd' = v_ncmd + 1
    /\ v_ncb' = IF v_callback THEN v_ncb + 1 ELSE v_ncb
    /\ v_last' = [cmd |-> "set", arg |-> v, old |-> v_val, cb |-> v_callback]
    /\ v_notes' = IF v_callback
                  THEN notify(on_changed_msg(v_val, v), v_ncmd + 1)
                  ELSE v_notes
    /\ UNCHANGED <<v_val, v_init, v_id, v_callback, v_snap, v_snapof, o_pc, o_seen, o_got>>
    /\ UNCHANGED notValue

\* self.val = v, and set returns.
set_commit ==
    /\ v_pc = "set"
    /\ v_val' = assign(v_arg)
    /\ v_pc' = "idle"
    /\ UNCHANGED <<v_init, v_id, v_callback, v_arg, v_notes, v_ncmd, v_ncb, v_last,
                   v_snap, v_snapof, o_pc, o_seen, o_got>>
    /\ UNCHANGED notValue

\* recover puts the snapshot's value after the value held.
recover_merge ==
    /\ v_pc = "idle"
    /\ v_ncmd < MaxCmds
    /\ v_snap # NoSnapshot
    /\ v_val' = v_val \o deserialize(v_snap)
    /\ v_ncmd' = v_ncmd + 1
    /\ v_last' = [cmd |-> "recover", arg |-> v_snapof, old |-> v_val,
                  cb |-> v_callback]
    /\ UNCHANGED <<v_init, v_id, v_callback, v_pc, v_arg, v_notes, v_ncb, v_snap,
                   v_snapof, o_pc, o_seen, o_got>>
    /\ UNCHANGED notValue

\* recover(data), data being the bytes of an earlier snapshot():
\* self.val = deserialize(&data)
recover ==
    /\ v_pc = "idle"
    /\ v_ncmd < MaxCmds
    /\ v_snap # NoSnapshot
    /\ v_val' = deserialize(v_snap)
    /\ v_ncmd' = v_ncmd + 1
    /\ v_last' = [cmd |-> "recover", arg |-> v_snapof, old |-> v_val,
                  cb |-> v_callback]
    /\ UNCHANGED <<v_init, v_id, v_callback, v_pc, v_arg, v_notes, v_ncb, v_snap,
                   v_snapof, o_pc, o_seen, o_got>>
    /\ UNCHANGED notValue

\* A subscriber of on_changed observes a notification it has not seen.
observe(k) ==
    /\ o_pc = "idle"
    /\ k \in 1..Len(v_notes)
    /\ k > o_seen
    /\ o_seen' = k
    /\ UNCHANGED <<v_val, v_init, v_id, v_callback, v_pc, v_arg, v_notes, v_ncmd,
                   v_ncb, v_last, v_snap, v_snapof, o_pc, o_got>>
    /\ UNCHANGED notValue

\* The subscriber issues get().
get_call ==
    /\ o_pc = "idle"
    /\ o_pc' = "get"
    /\ UNCHANGED <<v_val, v_init, v_id, v_callback, v_pc, v_arg, v_notes, v_ncmd,
                   v_ncb, v_last, v_snap, v_snapof, o_seen, o_got>>
    /\ UNCHANGED notValue

\* get(): self.val.clone() is returned.  With it are recorded the commands
\* assigned so far, the notification the subscriber had observed when it
\* issued the get, and the last command applied.
get ==
    /\ o_pc = "get"
    /\ SharedBorrow
    /\ o_got' = [val  |-> v_val,
                 ver  |-> Committed,
                 note |-> IF o_seen = 0 THEN NoNote ELSE v_notes[o_seen],
                 last |-> v_last]
    /\ o_pc' = "idle"
    /\ UNCHANGED <<v_val, v_init, v_id, v_callback, v_pc, v_arg, v_notes, v_ncmd,
                   v_ncb, v_last, v_snap, v_snapof, o_seen>>
    /\ UNCHANGED notValue

\* snapshot(): Some(serialize(&self.val))
snapshot ==
    /\ SharedBorrow
    /\ v_snap' = serialize(v_val)
    /\ v_snapof' = v_val
    /\ UNCHANGED <<v_val, v_init, v_id, v_callback, v_pc, v_arg, v_notes, v_ncmd,
                   v_ncb, v_last, o_pc, o_seen, o_got>>
    /\ UNCHANGED notValue

ValueNext ==
    \/ init_callback
    \/ \E v \in Vals : set_notify(v)
    \/ set_commit
    \/ recover
    \/ \E k \in 1..MaxCmds : observe(k)
    \/ get_call
    \/ get
    \/ snapshot

(***************************************************************************)
(* MemberService, its heartbeat task, and the replication layer it talks   *)
(* to (the membership state machine and the current leader)                *)
(***************************************************************************)
\* The leave() calls the owner of a MemberService makes.
MaxLeaves == 2

\* static PING_INTERVAL: u64 = 100
PING_INTERVAL == 100

\* The MemberServices, at distinct addresses.
Members == {1}
\* The nodes of the replication cluster, one of which is the leader.
Nodes == {"A", "B"}
NoNode == "none"

\* hash_str(server_address)
ServerId(s) == 100 + s
\* A member that joined from another process.
OtherMember == 200

NoCmdSent == [st |-> "none", id |-> 0, closed |-> FALSE, res |-> "none"]
NoPing == [to |-> NoNode, id |-> 0, ok |-> FALSE, prev |-> NoNode]

\* The results of a command: Ok(true), Ok(false), Err(ExecError).
CmdResults == {"true", "false", "err"}

\* The membership state machine's leave(id): the member is removed, and the
\* result says whether it was there.
sm_leave(id) == [members |-> m_members \ {id}, res |-> IF id \in m_members THEN "true" ELSE "false"]

\* The membership state machine's join(address).
sm_join(id) == [members |-> m_members \cup {id}, res |-> IF id \in m_members THEN "false" ELSE "true"]

\* sm_client.join(&server_address).await; the Result is dropped.
join_returned(s) == m_join[s] # "none"

\* A leave or a ping carries the id of another member.
own_id_other(s) == OtherMember

\* The id a leave or a ping of service s carries: self.id
own_id(s) == ServerId(s)

MemberInit ==
    /\ m_leader \in Nodes
    /\ m_members = {OtherMember}
    /\ m_pc = [s \in Members |-> "none"]
    /\ m_join = [s \in Members |-> "none"]
    /\ m_closed = [s \in Members |-> FALSE]
    /\ m_hb = [s \in Members |-> "none"]
    /\ m_rpc = [s \in Members |-> NoNode]
    /\ m_delay = [s \in Members |-> 0]
    /\ m_ping = [s \in Members |-> NoPing]
    /\ m_moved = [s \in Members |-> FALSE]
    /\ m_after = [s \in Members |-> 0]
    /\ m_lcmd = [s \in Members |-> NoCmdSent]
    /\ m_leaveres = [s \in Members |-> <<>>]
    /\ m_drop = [s \in Members |-> "none"]
    /\ m_dcmd = [s \in Members |-> NoCmdSent]

MemberIdle ==
    /\ m_leader = "A"
    /\ m_members = {OtherMember}
    /\ m_pc = [s \in Members |-> "none"]
    /\ m_join = [s \in Members |-> "none"]
    /\ m_closed = [s \in Members |-> FALSE]
    /\ m_hb = [s \in Members |-> "none"]
    /\ m_rpc = [s \in Members |-> NoNode]
    /\ m_delay = [s \in Members |-> 0]
    /\ m_ping = [s \in Members |-> NoPing]
    /\ m_moved = [s \in Members |-> FALSE]
    /\ m_after = [s \in Members |-> 0]
    /\ m_lcmd = [s \in Members |-> NoCmdSent]
    /\ m_leaveres = [s \in Members |-> <<>>]
    /\ m_drop = [s \in Members |-> "none"]
    /\ m_dcmd = [s \in Members |-> NoCmdSent]

hbVars == <<m_hb, m_rpc, m_delay, m_ping, m_moved, m_after>>
ownerVars == <<m_pc, m_join, m_closed, m_lcmd, m_leaveres>>
dropVars == <<m_drop, m_dcmd>>

\* Leadership moves to another node.
leader_move(n) ==
    /\ n # m_leader
    /\ m_leader' = n
    /\ m_moved' = [s \in Members |-> TRUE]
    /\ UNCHANGED <<m_members, m_hb, m_rpc, m_delay, m_ping, m_after, ownerVars, dropVars>>
    /\ UNCHANGED notMember

\* MemberService::new up to sm_client.join(&server_address).await
new_join(s) ==
    /\ m_pc[s] = "none"
    /\ m_pc' = [m_pc EXCEPT ![s] = "joining"]
    /\ UNCHANGED <<m_leader, m_members, m_join, m_closed, m_lcmd, m_leaveres, hbVars,
                   dropVars>>
    /\ UNCHANGED notMember

\* The replication layer applies the join command and answers it, or fails
\* it with an ExecError.
join_done(s, ok) ==
    /\ m_pc[s] = "joining"
    /\ m_join[s] = "none"
    /\ IF ok
       THEN /\ m_members' = sm_join(ServerId(s)).members
            /\ m_join' = [m_join EXCEPT ![s] = sm_join(ServerId(s)).res]
       ELSE /\ m_join' = [m_join EXCEPT ![s] = "err"]
            /\ UNCHANGED m_members
    /\ UNCHANGED <<m_leader, m_pc, m_closed, m_lcmd, m_leaveres, hbVars, dropVars>>
    /\ UNCHANGED notMember

\* The join returned: the heartbeat task is spawned and the service returned.
new_spawn(s) ==
    /\ m_pc[s] = "joining"
    /\ join_returned(s)
    /\ m_hb' = [m_hb EXCEPT ![s] = "check"]
    /\ m_pc' = [m_pc EXCEPT ![s] = "active"]
    /\ UNCHANGED <<m_leader, m_members, m_join, m_closed, m_lcmd, m_leaveres, m_rpc,
                   m_delay, m_ping, m_moved, m_after, dropVars>>
    /\ UNCHANGED notMember

\* The loop goes on whatever closed holds.
hb_check_ignored(s) ==
    /\ m_hb[s] = "check"
    /\ m_hb' = [m_hb EXCEPT ![s] = "resolve"]
    /\ m_moved' = [m_moved EXCEPT ![s] = FALSE]
    /\ UNCHANGED <<m_leader, m_members, m_rpc, m_delay, m_ping, m_after, ownerVars,
                   dropVars>>
    /\ UNCHANGED notMember

\* while !service_clone.closed.load(Ordering::Relaxed)
hb_check(s) ==
    /\ m_hb[s] = "check"
    /\ m_hb' = [m_hb EXCEPT ![s] = IF m_closed[s] THEN "exit" ELSE "resolve"]
    /\ m_moved' = [m_moved EXCEPT ![s] = FALSE]
    /\ UNCHANGED <<m_leader, m_members, m_rpc, m_delay, m_ping, m_after, ownerVars,
                   dropVars>>
    /\ UNCHANGED notMember

\* The leader's endpoint is kept from the iteration before.
hb_resolve_cached(s) ==
    /\ m_hb[s] = "resolve"
    /\ \E r \in {IF m_rpc[s] = NoNode THEN m_leader ELSE m_rpc[s]} :
          /\ m_rpc' = [m_rpc EXCEPT ![s] = r]
          /\ m_hb' = [m_hb EXCEPT ![s] = "ping"]
          /\ m_delay' = m_delay
    /\ UNCHANGED <<m_leader, m_members, m_ping, m_moved, m_after, ownerVars, dropVars>>
    /\ UNCHANGED notMember

\* raft_client.current_leader_rpc_client().await: the current leader's
\* endpoint, or an error; without an endpoint the ping is skipped.
hb_resolve(s) ==
    /\ m_hb[s] = "resolve"
    /\ \E r \in {m_leader, NoNode} :
          /\ m_rpc' = [m_rpc EXCEPT ![s] = r]
          /\ m_hb' = [m_hb EXCEPT ![s] = IF r = NoNode THEN "sleep" ELSE "ping"]
          /\ m_delay' = [m_delay EXCEPT ![s] = IF r = NoNode THEN PING_INTERVAL ELSE @]
    /\ UNCHANGED <<m_leader, m_members, m_ping, m_moved, m_after, ownerVars, dropVars>>
    /\ UNCHANGED notMember

\* The result of the ping is unwrapped: a failed ping ends the task.
hb_ping_unwrap(s, ok) ==
    /\ m_hb[s] = "ping"
    /\ m_ping' = [m_ping EXCEPT ![s] =
                     [to |-> m_rpc[s], id |-> own_id(s), ok |-> ok, prev |-> @.to]]
    /\ m_after' = [m_after EXCEPT ![s] = IF m_closed[s] /\ @ < 2 THEN @ + 1 ELSE @]
    /\ m_hb' = [m_hb EXCEPT ![s] = IF ok THEN "sleep" ELSE "exit"]
    /\ m_delay' = [m_delay EXCEPT ![s] = IF ok THEN PING_INTERVAL ELSE @]
    /\ UNCHANGED <<m_leader, m_members, m_rpc, m_moved, ownerVars, dropVars>>
    /\ UNCHANGED notMember

\* heartbeat_client.ping(service_clone.id).await, whose result is dropped.
hb_ping(s, ok) ==
    /\ m_hb[s] = "ping"
    /\ m_ping' = [m_ping EXCEPT ![s] =
                     [to |-> m_rpc[s], id |-> own_id(s), ok |-> ok, prev |-> @.to]]
    /\ m_after' = [m_after EXCEPT ![s] = IF m_closed[s] /\ @ < 2 THEN @ + 1 ELSE @]
    /\ m_hb' = [m_hb EXCEPT ![s] = "sleep"]
    /\ m_delay' = [m_delay EXCEPT ![s] = PING_INTERVAL]
    /\ UNCHANGED <<m_leader, m_members, m_rpc, m_moved, ownerVars, dropVars>>
    /\ UNCHANGED notMember

\* time::delay_for(PING_INTERVAL ms) elapsed.
hb_sleep(s) ==
    /\ m_hb[s] = "sleep"
    /\ m_hb' = [m_hb EXCEPT ![s] = "check"]
    /\ m_delay' = [m_delay EXCEPT ![s] = 0]
    /\ UNCHANGED <<m_leader, m_members, m_rpc, m_ping, m_moved, m_after, ownerVars,
                   dropVars>>
    /\ UNCHANGED notMember

\* close(): self.closed.store(true, Ordering::Relaxed)
close(s) ==
    /\ m_pc[s] = "active"
    /\ m_closed' = [m_closed EXCEPT ![s] = TRUE]
    /\ UNCHANGED <<m_leader, m_members, m_pc, m_join, m_lcmd, m_leaveres, hbVars, dropVars>>
    /\ UNCHANGED notMember

\* leave() goes on to the leave command without close().
leave_noclose(s) ==
    /\ m_pc[s] = "active"
    /\ Len(m_leaveres[s]) < MaxLeaves
    /\ m_pc' = [m_pc EXCEPT ![s] = "leaving"]
    /\ UNCHANGED <<m_leader, m_members, m_closed, m_join, m_lcmd, m_leaveres, hbVars,
                   dropVars>>
    /\ UNCHANGED notMember

\* leave(): self.close()
leave_close(s) ==
    /\ m_pc[s] = "active"
    /\ Len(m_leaveres[s]) < MaxLeaves
    /\ m_closed' = [m_closed EXCEPT ![s] = TRUE]
    /\ m_pc' = [m_pc EXCEPT ![s] = "leaving"]
    /\ UNCHANGED <<m_leader, m_members, m_join, m_lcmd, m_leaveres, hbVars, dropVars>>
    /\ UNCHANGED notMember

\* leave(): self.sm_client.leave(&self.id) is issued.
leave_issue(s) ==
    /\ m_pc[s] = "leaving"
    /\ m_lcmd' = [m_lcmd EXCEPT ![s] =
                     [st |-> "sent", id |-> own_id(s), closed |-> m_closed[s],
                      res |-> "none"]]
    /\ m_pc' = [m_pc EXCEPT ![s] = "leave_wait"]
    /\ UNCHANGED <<m_leader, m_members, m_join, m_closed, m_leaveres, hbVars, dropVars>>
    /\ UNCHANGED notMember

\* The replication layer applies the leave command of leave() and answers
\* it, or fails it with an ExecError.
leave_done(s, ok) ==
    /\ m_lcmd[s].st = "sent"
    /\ IF ok
       THEN /\ m_members' = sm_leave(m_lcmd[s].id).members
            /\ m_lcmd' = [m_lcmd EXCEPT ![s].st = "done",
                                        ![s].res = sm_leave(m_lcmd[s].id).res]
       ELSE /\ m_lcmd' = [m_lcmd EXCEPT ![s].st = "done", ![s].res = "err"]
            /\ UNCHANGED m_members
    /\ UNCHANGED <<m_leader, m_pc, m_join, m_closed, m_leaveres, hbVars, dropVars>>
    /\ UNCHANGED notMember

\* leave() returns the result of the leave command.
leave_return(s) ==
    /\ m_pc[s] = "leave_wait"
    /\ m_lcmd[s].st = "done"
    /\ m_leaveres' = [m_leaveres EXCEPT ![s] = Append(@, m_lcmd[s].res)]
    /\ m_lcmd' = [m_lcmd EXCEPT ![s] = NoCmdSent]
    /\ m_pc' = [m_pc EXCEPT ![s] = "active"]
    /\ UNCHANGED <<m_leader, m_members, m_join, m_closed, hbVars, dropVars>>
    /\ UNCHANGED notMember

\* The owner drops its Arc<MemberService>.
owner_drop(s) ==
    /\ m_pc[s] = "active"
    /\ m_pc' = [m_pc EXCEPT ![s] = "dropped"]
    /\ UNCHANGED <<m_leader, m_members, m_join, m_closed, m_lcmd, m_leaveres, hbVars,
                   dropVars>>
    /\ UNCHANGED notMember

\* Drop::drop runs as soon as the owner's Arc is gone, the heartbeat task
\* holding no strong reference.
drop_weak(s) ==
    /\ m_pc[s] = "dropped"
    /\ m_drop[s] = "none"
    /\ m_drop' = [m_drop EXCEPT ![s] = "spawned"]
    /\ UNCHANGED <<m_leader, m_members, m_dcmd, ownerVars, hbVars>>
    /\ UNCHANGED notMember

\* Drop::drop runs once the owner's Arc and the heartbeat task's
\* service_clone are both gone: the leave task is spawned.
drop(s) ==
    /\ m_pc[s] = "dropped"
    /\ m_hb[s] = "exit"
    /\ m_drop[s] = "none"
    /\ m_drop' = [m_drop EXCEPT ![s] = "spawned"]
    /\ UNCHANGED <<m_leader, m_members, m_dcmd, ownerVars, hbVars>>
    /\ UNCHANGED notMember

\* The spawned task issues sm_client.leave(&self_id).
drop_leave_issue(s) ==
    /\ m_drop[s] = "spawned"
    /\ m_dcmd' = [m_dcmd EXCEPT ![s] =
                     [st |-> "sent", id |-> own_id(s), closed |-> m_closed[s],
                      res |-> "none"]]
    /\ m_drop' = [m_drop EXCEPT ![s] = "issued"]
    /\ UNCHANGED <<m_leader, m_members, ownerVars, hbVars>>
    /\ UNCHANGED notMember

\* The replication layer applies the leave command of the destructor, or
\* fails it.
drop_leave_done(s, ok) ==
    /\ m_dcmd[s].st = "sent"
    /\ IF ok
       THEN /\ m_members' = sm_leave(m_dcmd[s].id).members
            /\ m_dcmd' = [m_dcmd EXCEPT ![s].st = "done",
                                        ![s].res = sm_leave(m_dcmd[s].id).res]
       ELSE /\ m_dcmd' = [m_dcmd EXCEPT ![s].st = "done", ![s].res = "err"]
            /\ UNCHANGED m_members
    /\ UNCHANGED <<m_leader, m_drop, ownerVars, hbVars>>
    /\ UNCHANGED notMember

MemberNext ==
    \/ \E n \in Nodes : leader_move(n)
    \/ \E s \in Members : new_join(s)
    \/ \E s \in Members, ok \in BOOLEAN : join_done(s, ok)
    \/ \E s \in Members : new_spawn(s)
    \/ \E s \in Members : hb_check(s)
    \/ \E s \in Members : hb_resolve(s)
    \/ \E s \in Members, ok \in BOOLEAN : hb_ping(s, ok)
    \/ \E s \in Members : hb_sleep(s)
    \/ \E s \in Members : close(s)
    \/ \E s \in Members : leave_close(s)
    \/ \E s \in Members : leave_issue(s)
    \/ \E s \in Members, ok \in BOOLEAN : leave_done(s, ok)
    \/ \E s \in Members : leave_return(s)
    \/ \E s \in Members : owner_drop(s)
    \/ \E s \in Members : drop(s)
    \/ \E s \in Members : drop_leave_issue(s)
    \/ \E s \in Members, ok \in BOOLEAN : drop_leave_done(s, ok)

(***************************************************************************)
(* Specifications                                                          *)
(***************************************************************************)
InitWire ==
    /\ WireInit
    /\ RpcInit
    /\ PoolInit
    /\ ValueIdle
    /\ MemberIdle

SpecWire == InitWire /\ [][WireNext]_vars

InitRpc ==
    /\ WireIdle
    /\ RpcInit
    /\ PoolInit
    /\ ValueIdle
    /\ MemberIdle

SpecRpc == InitRpc /\ [][RpcNext]_vars

InitPool ==
    /\ WireIdle
    /\ RpcInit
    /\ PoolInit
    /\ ValueIdle
    /\ MemberIdle

SpecPool == InitPool /\ [][PoolNext]_vars

InitValue ==
    /\ WireIdle
    /\ RpcInit
    /\ PoolInit
    /\ ValueInit
    /\ MemberIdle

SpecValue == InitValue /\ [][ValueNext]_vars

InitMember ==
    /\ WireIdle
    /\ RpcInit
    /\ PoolInit
    /\ ValueIdle
    /\ MemberInit

SpecMember == InitMember /\ [][MemberNext]_vars

\* The runtime schedules every spawned task that can run, and the sleep, the
\* leader resolution and the ping a heartbeat task awaits complete; the
\* owner's calls, the moves of leadership and the answers of the replication
\* layer to join and leave commands need not happen.
MemberFairness ==
    \A s \in Members :
        /\ WF_vars(hb_check(s))
        /\ WF_vars(hb_resolve(s))
        /\ WF_vars(\E ok \in BOOLEAN : hb_ping(s, ok))
        /\ WF_vars(hb_sleep(s))
        /\ WF_vars(drop(s))
        /\ WF_vars(drop_leave_issue(s))

SpecMemberFair == InitMember /\ [][MemberNext]_vars /\ MemberFairness

(***************************************************************************)
(* The claims                                                              *)
(***************************************************************************)
\* C1: read_u64_head(prepend_u64(S, P)) is (S, P) for every service id S and
\* payload P, and decode_res(Ok(encode_res(Ok(R)))) is Ok(R) for every
\* handler output R: the server sees the request the client sent, and the
\* client the handler's output without the status byte.
C1_RoundTrip ==
    /\ w_pc \in {"parsed", "encoded", "decoded"}
          => w_head = [panic |-> FALSE, num |-> w_svr_id, data |-> w_data]
    /\ (w_pc = "decoded" /\ w_res.tag = "Ok" /\ w_io.tag = "Ok")
          => w_dec = Ok(w_res.buf)

\* What read_u64_head does with a frame of prepend_u64: (S, P) for a payload
\* of eight bytes or more, a panic for a shorter one.
C1_RoundTripLong ==
    /\ w_pc \in {"parsed", "encoded", "decoded"}
          => w_head = IF Len(w_data) >= 8
                      THEN [panic |-> FALSE, num |-> w_svr_id, data |-> w_data]
                      ELSE HeadPanic
    /\ (w_pc = "decoded" /\ w_res.tag = "Ok" /\ w_io.tag = "Ok")
          => w_dec = Ok(w_res.buf)

C1_Witness ==
    /\ w_pc = "decoded"
    /\ w_res.tag = "Ok" /\ w_res.buf # <<>>
    /\ w_io.tag = "Ok"
    /\ w_head.num = 16909060 /\ Len(w_head.data) > 8
    /\ w_dec.tag = "Ok"

\* C2: when the request closure looks up a service id that has no handler,
\* it answers the single byte 2 (ServiceIdNotFound, no payload), invokes no
\* dispatch, holds no read guard afterwards, leaves the registry as it was,
\* and is ready for the connection's next request.
C2_NotFound ==
    [][\A c \in Clients :
         (/\ r_spc[c] = "lookup"
          /\ r_spc'[c] # "lookup"
          /\ get_service(r_shead[c].num) = NoHandler)
         => /\ r_respq'[c] = IF r_reset[c] THEN r_respq[c]
                             ELSE Append(r_respq[c], <<2>>)
            /\ r_log' = r_log
            /\ r_readers' = r_readers
            /\ r_services' = r_services
            /\ r_shortcuts' = r_shortcuts
            /\ r_spc'[c] = "idle"]_vars

\* One client got ServiceIdNotFound, and a request on the same connection
\* was dispatched and answered.
C2_Witness ==
    \E t1, t2 \in Tasks :
        /\ r_tcl[t1] = r_tcl[t2]
        /\ r_tpc[t1] = "done" /\ r_tres[t1] = Err("ServiceIdNotFound")
        /\ r_tpc[t2] = "done" /\ r_tres[t2].tag = "Ok"
        /\ Cardinality(r_log) = 1

\* The requests of connection c that are written and not yet answered to
\* the caller: on the way to the server, in the request closure, on the way
\* back.
InFlight(c) ==
    Len(r_reqq[c]) + Len(r_respq[c])
        + (IF r_spc[c] \in {"lookup", "dispatch"} THEN 1 ELSE 0)

\* C3: with tasks calling send_async concurrently on one RPCClient, at most
\* one task is between the write and the read, at most one request is in
\* flight on the connection, and a task that gets an output gets the output
\* of a handler for its own request.
C3_OneInFlight ==
    /\ \A c \in Clients :
          /\ InFlight(c) <= 1
          /\ Cardinality({t \in Tasks : r_tpc[t] \in {"locked", "written"}
                                        /\ r_tcl[t] = c}) <= 1
    /\ \A t \in Tasks :
          r_tpc[t] = "done" =>
              r_tres[t] \in {Err("IOError"), Err("ServiceIdNotFound")}
                            \cup {dispatch(h, r_tdata[t]) : h \in Handlers}

\* Both tasks called the same RPCClient and got the output for their own
\* request, while one waited for the mutex the other held.
C3_Witness ==
    /\ \A t \in Tasks : r_tpc[t] = "done" /\ r_tres[t].tag = "Ok"
    /\ r_tcl[1] = r_tcl[2]

\* C4: every get_by_id that succeeds for a server id returns the same
\* RPCClient, and an entry of the map is never replaced or removed.
C4_SameClient ==
    /\ [](\A id \in PoolIds : Cardinality({x \in p_returned : x[1] = id}) <= 1)
    /\ [][\A id \in PoolIds :
            p_clients[id] # NoClient => p_clients'[id] = p_clients[id]]_vars

\* Both tasks got the one client of a server id, one of them on its second
\* call.
C4_Witness ==
    \E id \in PoolIds :
        /\ p_clients[id] # NoClient
        /\ \A t \in PoolTasks : p_ret[t] = p_clients[id] /\ p_pc[t] = "idle"
        /\ p_calls[1] = 2

\* C5: each set(v) applied with a callback attached emits one notification
\* (old, v), old being the value held before that set, and a get() issued
\* after a notification was observed is answered after the set that emitted
\* it assigned its value: with v, or with what a later command assigned.
C5_Notified ==
    /\ Len(v_notes) = v_ncb
    /\ (v_last.cmd = "set" /\ v_last.cb)
          => /\ v_notes # <<>>
             /\ v_notes[Len(v_notes)] =
                   [old |-> v_last.old, new |-> v_last.arg, n |-> v_ncmd]
    /\ o_got.note # NoNote
          => /\ o_got.ver >= o_got.note.n
             /\ o_got.ver = o_got.note.n => o_got.val = o_got.note.new

\* The subscriber observed the notification of the second set and its get()
\* returned the value of that set.
C5_Witness ==
    /\ o_got.note.n = 2
    /\ o_got.ver = 2
    /\ o_got.note.old # o_got.note.new
    /\ o_got.val = o_got.note.new
    /\ Len(v_notes) = 2

\* C6: get() returns the initial value until the first set and the argument
\* of the last set applied after it, with or without a callback, and a
\* get() changes neither the value, the id, the callback nor the
\* notifications.
C6_Get ==
    /\ [](/\ (v_pc = "idle" /\ v_last.cmd = "new") => v_val = v_init
          /\ (v_pc = "idle" /\ v_last.cmd = "set") => v_val = v_last.arg
          /\ o_got.last.cmd = "new" => o_got.val = v_init
          /\ o_got.last.cmd = "set" => o_got.val = o_got.last.arg)
    /\ [][(o_pc = "get" /\ o_pc' = "idle")
            => UNCHANGED <<v_val, v_id, v_callback, v_notes, v_ncmd>>]_vars

\* A get() after a set with a callback attached returned the set's argument,
\* which is not the initial value.
C6_Witness ==
    /\ o_got.last.cmd = "set"
    /\ o_got.last.cb
    /\ o_got.val = o_got.last.arg
    /\ o_got.val # v_init

\* C7 as stated: the leave command of a second (or later) leave() removes
\* nothing and is answered Ok(false) or with an error.
C7_SecondLeaveNoop ==
    [][\A s \in Members :
         (/\ m_lcmd[s].st = "sent"
          /\ m_lcmd'[s].st = "done"
          /\ Len(m_leaveres[s]) >= 1)
         => /\ m_members' = m_members
            /\ m_lcmd'[s].res \in {"false", "err"}]_vars

\* C7, amended: a leave() removes no member but the service's own id, and
\* once a leave() of the service was answered Ok, the leave command of every
\* later leave() removes nothing and is answered Ok(false) or with an error.
C7_LeaveAfterAck ==
    [][\A s \in Members :
         (m_lcmd[s].st = "sent" /\ m_lcmd'[s].st = "done")
         => /\ m_members' \subseteq m_members
            /\ (m_members \ m_members') \subseteq {ServerId(s)}
            /\ (\E i \in 1..Len(m_leaveres[s]) : m_leaveres[s][i] # "err")
                  => /\ m_members' = m_members
                     /\ m_lcmd'[s].res \in {"false", "err"}]_vars

\* The first leave() removed the member and the second returned Ok(false).
C7_Witness ==
    \E s \in Members :
        /\ Len(m_leaveres[s]) = 2
        /\ m_leaveres[s][1] = "true"
        /\ m_leaveres[s][2] = "false"
        /\ m_members = {OtherMember}

\* C8: a ping goes to the endpoint the task resolved in the same iteration
\* and carries the service's own id; the endpoint is the leader of some
\* moment of that iteration, so with no move of leadership since the
\* iteration began it is the current leader.
C8_PingToLeader ==
    \A s \in Members :
        /\ m_hb[s] = "ping" => (m_rpc[s] \in Nodes /\ (~m_moved[s] => m_rpc[s] = m_leader))
        /\ (m_hb[s] = "sleep" /\ m_rpc[s] # NoNode)
              => /\ m_ping[s].to = m_rpc[s]
                 /\ m_ping[s].id = ServerId(s)
                 /\ ~m_moved[s] => m_ping[s].to = m_leader

\* A ping went to A, leadership moved, and the ping of a later iteration
\* went to B.
C8_Witness ==
    \E s \in Members :
        /\ m_hb[s] = "sleep"
        /\ m_ping[s].prev = "A"
        /\ m_ping[s].to = "B"
        /\ m_leader = "B"
        /\ ~m_moved[s]

\* C9 as stated: a heartbeat task exists only if the join command was
\* acknowledged.
C9_ActiveOnlyOnAck ==
    \A s \in Members : m_hb[s] # "none" => m_join[s] \in {"true", "false"}

\* C10: the leave command of leave() is issued with closed set and carries
\* the service's own id, leave() returns the result of that command, and
\* closed, once set, stays set, also when the command fails.
C10_Leave ==
    /\ [](\A s \in Members :
            /\ m_lcmd[s].st # "none"
                  => (m_lcmd[s].closed /\ m_lcmd[s].id = ServerId(s))
            /\ m_leaveres[s] # <<>> => m_closed[s])
    /\ [][\A s \in Members :
            /\ m_closed[s] => m_closed'[s]
            /\ (m_pc[s] = "leave_wait" /\ m_pc'[s] # "leave_wait")
                  => m_leaveres'[s] = Append(m_leaveres[s], m_lcmd[s].res)]_vars

\* A leave() returned the error of its leave command, and closed is set.
C10_Witness ==
    \E s \in Members :
        /\ m_leaveres[s] # <<>>
        /\ m_leaveres[s][Len(m_leaveres[s])] = "err"
        /\ m_closed[s]
        /\ ServerId(s) \in m_members

\* C11 as stated: once the owner has dropped its handle of a service whose
\* closed flag is not set, the destructor's task issues a leave command for
\* the service's own id.
C11_DropDispatchesLeave ==
    \A s \in Members :
        (m_pc[s] = "dropped" /\ ~m_closed[s])
            ~> (m_dcmd[s].st # "none" /\ m_dcmd[s].id = ServerId(s))

\* C12: encode_res answers the byte 0 and the payload for Ok, the single
\* byte 1 for FunctionIdNotFound, 2 for ServiceIdNotFound and 255 for Other;
\* decode_res reads 0 as Ok of the rest, 1 and 2 as the two NotFound errors
\* and any other first byte as Other, so an encoded error is decoded as
\* the same error.
C12_StatusBytes ==
    /\ w_pc \in {"encoded", "decoded"}
          => /\ w_res.tag = "Ok" => w_enc = <<0>> \o w_res.buf
             /\ w_res = Err("FunctionIdNotFound") => w_enc = <<1>>
             /\ w_res = Err("ServiceIdNotFound") => w_enc = <<2>>
             /\ w_res = Err("Other") => w_enc = <<255>>
    /\ (w_pc = "decoded" /\ w_io.tag = "Ok" /\ w_res.tag = "Err")
          => w_dec = Err(w_res.err)
    /\ (w_pc = "rawdecoded" /\ w_enc # <<>>)
          => /\ w_enc[1] = 0 => w_dec = Ok(Tail(w_enc))
             /\ w_enc[1] = 1 => w_dec = Err("FunctionIdNotFound")
             /\ w_enc[1] = 2 => w_dec = Err("ServiceIdNotFound")
             /\ w_enc[1] \notin {0, 1, 2} => w_dec = Err("Other")

\* Other was encoded as the single byte 255 and decoded as Other.
C12_Witness ==
    /\ w_pc = "decoded"
    /\ w_res = Err("Other")
    /\ w_enc = <<255>>
    /\ w_io = Ok(w_enc)
    /\ w_dec = Err("Other")

\* C13: recover with the bytes of a snapshot() leaves the Value holding the
\* value held when the snapshot was taken, whatever it held before, with
\* its id, its callback and the notifications emitted as they were; and
\* snapshot() changes neither the value, the id, the callback nor the
\* notifications.
C13_Recover ==
    /\ [][(v_ncmd' = v_ncmd + 1 /\ v_last'.cmd = "recover")
            => /\ v_val' = v_snapof
               /\ UNCHANGED <<v_id, v_callback, v_notes, v_snap>>]_vars
    /\ [][(v_snap' # v_snap \/ v_snapof' # v_snapof)
            => /\ v_snap' # NoSnapshot
               /\ v_snapof' = v_val
               /\ UNCHANGED <<v_val, v_id, v_callback, v_notes, v_ncmd>>]_vars

\* A Value with a callback attached, holding a value set after the snapshot,
\* was recovered to the snapshot's value.
C13_Witness ==
    /\ v_last.cmd = "recover"
    /\ v_last.cb
    /\ v_last.old # v_last.arg
    /\ v_last.arg # <<>>
    /\ v_val = v_last.arg
    /\ v_notes # <<>>

\* C14: closed, once set, stays set; with closed set the heartbeat task
\* sends at most one more ping, starts no iteration at the loop's check and
\* stays exited once it exited; and, its awaits completing, a task whose
\* service is closed exits.
C14_CloseStopsHeartbeat ==
    /\ [](\A s \in Members : m_after[s] <= 1)
    /\ [][\A s \in Members :
            /\ m_closed[s] => m_closed'[s]
            /\ (m_closed[s] /\ m_hb[s] = "check") => m_hb'[s] \in {"check", "exit"}
            /\ m_hb[s] = "exit" => m_hb'[s] = "exit"]_vars
    /\ \A s \in Members : (m_closed[s] /\ m_hb[s] # "none") ~> (m_hb[s] = "exit")

\* close() came while an iteration was under way: its ping was sent with
\* closed set, and the task exited at the next check.
C14_Witness ==
    \E s \in Members :
        /\ m_closed[s]
        /\ m_after[s] = 1
        /\ m_hb[s] = "exit"

\* C15: the heartbeat task exits only with closed set; a leader resolution
\* that fails sends no ping and goes to the sleep, a ping goes to the sleep
\* whether it failed or not, every sleep is of 100 ms, and after the sleep
\* the loop checks closed and, closed not being set, starts the next
\* iteration.
C15_FailuresSwallowed ==
    /\ [](\A s \in Members : m_hb[s] = "sleep" => m_delay[s] = 100)
    /\ [][\A s \in Members :
            /\ (m_hb[s] # "exit" /\ m_hb'[s] = "exit") => m_closed[s]
            /\ (m_hb[s] = "resolve" /\ m_hb'[s] # "resolve" /\ m_rpc'[s] = NoNode)
                  => (m_hb'[s] = "sleep" /\ m_ping'[s] = m_ping[s])
            /\ (m_hb[s] = "ping" /\ m_hb'[s] # "ping") => m_hb'[s] = "sleep"
            /\ (m_hb[s] = "sleep" /\ m_hb'[s] # "sleep") => m_hb'[s] = "check"
            /\ (m_hb[s] = "check" /\ m_hb'[s] # "check" /\ ~m_closed[s])
                  => m_hb'[s] = "resolve"]_vars
    /\ \A s \in Members :
          (m_hb[s] \in {"ping", "sleep"}) ~> (m_hb[s] = "resolve" \/ m_closed[s])

\* After an iteration whose ping failed, the leader resolution of a later
\* iteration failed, and the task sleeps with closed not set.
C15_Witness ==
    \E s \in Members :
        /\ ~m_closed[s]
        /\ m_hb[s] = "sleep"
        /\ m_rpc[s] = NoNode
        /\ m_ping[s].to # NoNode
        /\ ~m_ping[s].ok

\* C16 as stated: the pool lock guards the lookup and the insert and not
\* the connect, so that a task awaiting its connect does not hold the lock
\* (and another first-time caller for the same id can connect as well).
C16_LockNotOverConnect ==
    \A t \in PoolTasks : p_pc[t] = "connecting" => p_holder # t

\* C16, amended: the pool lock is held over the connect, at most one task
\* is connecting at a time, and no server id ever has two connections
\* established: the second of two first-time callers finds the entry of
\* the first.
C16_OneConnectionPerId ==
    /\ \A t \in PoolTasks : p_pc[t] = "connecting" => p_holder = t
    /\ Cardinality({t \in PoolTasks : p_pc[t] = "connecting"}) <= 1
    /\ \A id \in PoolIds : Cardinality({x \in p_conns : x[1] = id}) <= 1

\* Two tasks asked for the same unseen id, each in its first call; one
\* connection was established and both got its client.
C16_Witness ==
    \E id \in PoolIds :
        /\ \A t \in PoolTasks :
              p_calls[t] = 1 /\ p_pc[t] = "idle" /\ p_id[t] = id
                /\ p_ret[t] = p_clients[id]
        /\ p_clients[id] # NoClient
        /\ Cardinality({x \in p_conns : x[1] = id}) = 1

\* C17: a send_async that has written its request holds the client mutex
\* and returns only when a response has come or the transport has failed,
\* never by a timeout; while it holds the mutex no other send_async gets
\* past the lock of that RPCClient, and a send_async on another RPCClient
\* takes that client's mutex whatever the first one waits for.
C17_NoTimeout ==
    /\ [](\A t \in Tasks :
            r_tpc[t] \in {"locked", "written"} => r_mutex[r_tcl[t]] = t)
    /\ [][\A t \in Tasks :
            /\ (r_tpc[t] = "written" /\ r_tpc'[t] # "written")
                  => (r_respq[r_tcl[t]] # <<>> \/ r_reset[r_tcl[t]])
            /\ (r_tpc[t] = "idle" /\ r_tpc'[t] # "idle")
                  => r_mutex[r_tcl'[t]] = 0]_vars

\* The request of task 1 on client 1 is not answered, task 1 waits with the
\* mutex, and task 2 got the output of a handler through client 2.
C17_Witness ==
    /\ r_tpc[1] = "written" /\ r_tcl[1] = 1 /\ r_mutex[1] = 1
    /\ ~r_reset[1] /\ r_respq[1] = <<>> /\ r_reqq[1] = <<>>
    /\ r_spc[1] = "panicked"
    /\ r_tpc[2] = "done" /\ r_tcl[2] = 2 /\ r_tres[2].tag = "Ok"

\* C18: the registry changes only when a register_service or a
\* remove_service completes; a register_service(S, h) leaves S with h
\* whatever S had, and the other ids as they were; a remove_service(S)
\* leaves S without a handler and the other ids as they were, so that
\* removing an absent id changes nothing; and a request for S is dispatched
\* to the handler the registry has for S when it is looked up, and is
\* answered with that handler's output, or is not dispatched when S has none.
C18_Registry ==
    [][/\ (r_apc = "insert" /\ r_apc' = "idle")
            => r_services' = [i \in ServiceIds |->
                                 IF i = r_areg[1] THEN r_areg[2] ELSE r_services[i]]
       /\ (r_apc = "idle" /\ r_apc' = "idle" /\ r_nadmin' # r_nadmin)
            => \E id \in ServiceIds :
                  r_services' = [i \in ServiceIds |->
                                    IF i = id THEN NoHandler ELSE r_services[i]]
       /\ r_services' # r_services
            => (r_apc = "insert" \/ r_nadmin' # r_nadmin)
       /\ \A c \in Clients :
            /\ (r_spc[c] = "lookup" /\ r_spc'[c] # "lookup")
                  => IF r_shead[c].num \in ServiceIds
                        /\ r_services[r_shead[c].num] # NoHandler
                     THEN /\ r_spc'[c] = "dispatch"
                          /\ r_shandler'[c] = r_services[r_shead[c].num]
                          /\ <<r_services[r_shead[c].num], r_shead[c].num,
                                r_shead[c].data>> \in r_log'
                     ELSE /\ r_spc'[c] = "idle"
                          /\ r_log' = r_log
            /\ (r_spc[c] = "dispatch" /\ r_spc'[c] # "dispatch" /\ ~r_reset[c])
                  => r_respq'[c] =
                        Append(r_respq[c], <<0, r_shandler[c]>> \o r_shead[c].data)]_vars

\* Service id 0 was registered with handler 11 and then with handler 12, and
\* a request for 0 got the output of handler 12.
C18_Witness ==
    /\ r_nadmin = 2 /\ r_apc = "idle"
    /\ r_shortcuts = {<<11, server_id, 0>>, <<12, server_id, 0>>}
    /\ r_services[0] = 12
    /\ \E t \in Tasks :
          /\ r_tpc[t] = "done" /\ r_tsvc[t] = 0
          /\ r_tres[t] = Ok(<<12>> \o r_tdata[t])

\* C19: a get_by_id whose connect ends without a connection returns the
\* error to its caller, leaves the map and the connections as they were,
\* releases the pool lock and ends that call (a call leaves its connect only
\* by returning); and a get_by_id that finds no entry for its id makes a
\* connect attempt, as a later call for the id of a failed connect does.
C19_ConnectFailure ==
    [][\A t \in PoolTasks :
         /\ (p_pc[t] = "connecting" /\ p_pc'[t] # "connecting")
               => /\ p_pc'[t] = "idle"
                  /\ p_holder' = 0
                  /\ p_calls' = p_calls
                  /\ IF p_conns' = p_conns
                     THEN /\ p_ret'[t] = ConnectErr
                          /\ p_clients' = p_clients
                          /\ p_returned' = p_returned
                     ELSE p_ret'[t] = p_clients'[p_id[t]]
         /\ (p_pc[t] = "locked" /\ p_pc'[t] # "locked"
               /\ p_clients[p_id[t]] = NoClient)
               => p_pc'[t] = "connecting" /\ p_conns' = p_conns]_vars

\* The connect of task 2 for a server id failed, and task 1, which asked for
\* the same id after that, connected and got the client.
C19_Witness ==
    \E id \in PoolIds :
        /\ p_pc[2] = "idle" /\ p_id[2] = id /\ p_ret[2] = ConnectErr
        /\ p_pc[1] = "idle" /\ p_id[1] = id /\ p_calls[1] = 1
        /\ p_clients[id] # NoClient /\ p_ret[1] = p_clients[id]
        /\ p_holder = 0

\* C20: with shortcuts enabled, register_service(S, h) has published the
\* entry (h, server_id, S) when it goes on to insert into the registry, the
\* registry being as it was until then; no step takes an entry out of the
\* shortcut directory, a remove_service leaves it as it is; and a request
\* for an id that has a shortcut entry and no handler in the registry is
\* answered ServiceIdNotFound.
C20_ShortcutStays ==
    /\ [](r_apc = "insert" => <<r_areg[2], server_id, r_areg[1]>> \in r_shortcuts)
    /\ [][/\ (r_apc = "idle" /\ r_apc' = "insert")
               => /\ <<r_areg'[2], server_id, r_areg'[1]>> \in r_shortcuts'
                  /\ r_services' = r_services
          /\ r_shortcuts \subseteq r_shortcuts'
          /\ (r_apc = "idle" /\ r_apc' = "idle" /\ r_nadmin' # r_nadmin)
               => r_shortcuts' = r_shortcuts
          /\ \A c \in Clients :
               (/\ r_spc[c] = "lookup" /\ r_spc'[c] # "lookup"
                /\ r_shead[c].num \in ServiceIds
                /\ r_services[r_shead[c].num] = NoHandler
                /\ \E h \in Handlers : <<h, server_id, r_shead[c].num>> \in r_shortcuts)
               => /\ r_spc'[c] = "idle"
                  /\ r_log' = r_log
                  /\ (~r_reset[c] => r_respq'[c] = Append(r_respq[c], <<2>>))]_vars

\* Service id 0 was registered and then removed: a first request for id 0
\* got the handler's output, the shortcut entry is still in the directory,
\* and the next request for id 0 on the same RPCClient is being answered
\* ServiceIdNotFound.
C20_Witness ==
    /\ r_nadmin = 2 /\ r_apc = "idle"
    /\ r_shortcuts = {<<11, server_id, 0>>}
    /\ r_services[0] = NoHandler
    /\ \E t1, t2 \in Tasks :
          /\ r_tcl[t1] = r_tcl[t2]
          /\ r_tpc[t1] = "done" /\ r_tsvc[t1] = 0
          /\ r_tres[t1] = Ok(<<11>> \o r_tdata[t1])
          /\ r_tpc[t2] = "written" /\ r_tsvc[t2] = 0
          /\ ~r_reset[r_tcl[t2]]
          /\ r_respq[r_tcl[t2]] = <<NotFoundResponse>>

\* C21: a connection whose dispatch is in flight holds a read guard of the
\* registry, and the registry still has, for the id of the request, the
\* handler that is dispatching; a read guard is held by in-flight dispatches
\* only, any number of them at a time; and no step changes the registry while
\* a dispatch is in flight.
C21_ReadGuardOverDispatch ==
    /\ [](\A c \in Clients :
            /\ r_spc[c] = "dispatch"
                 => /\ c \in r_readers
                    /\ r_shandler[c] # NoHandler
                    /\ get_service(r_shead[c].num) = r_shandler[c]
            /\ c \in r_readers => r_spc[c] = "dispatch")
    /\ [][r_services' # r_services
            => \A c \in Clients : r_spc[c] # "dispatch"]_vars

\* The dispatches of two requests for service id 0 are in flight at once,
\* on two connections, while a register_service that would replace the
\* handler of id 0 waits for the write lock.
C21_Witness ==
    /\ \A c \in Clients : r_spc[c] = "dispatch" /\ r_shead[c].num = 0
    /\ r_readers = Clients
    /\ r_apc = "insert"
    /\ r_areg[1] = 0
    /\ r_areg[2] # r_services[0]

\* C22: the destructor of a service has run only if the owner dropped its
\* handle, the closed flag is set and the heartbeat loop has exited; every
\* leave command of a service, of leave() or of the destructor, carries the
\* service's own id; and a service on which leave() has returned and which
\* is then dropped gets the destructor's leave command, a second one for
\* the same id, issued.
C22_DropAfterHeartbeat ==
    /\ [](\A s \in Members :
            /\ m_drop[s] # "none"
                 => m_pc[s] = "dropped" /\ m_closed[s] /\ m_hb[s] = "exit"
            /\ m_dcmd[s].st # "none" => m_drop[s] = "issued" /\ m_dcmd[s].id = ServerId(s)
            /\ m_lcmd[s].st # "none" => m_lcmd[s].id = ServerId(s))
    /\ \A s \in Members :
          (m_pc[s] = "dropped" /\ Len(m_leaveres[s]) >= 1)
              ~> (m_dcmd[s].st # "none" /\ m_dcmd[s].id = ServerId(s))

\* leave() returned Ok(true) on a service, the service was dropped, and the
\* destructor's leave command for the same id was applied and answered
\* Ok(false).
C22_Witness ==
    \E s \in Members :
        /\ m_leaveres[s] = <<"true">>
        /\ m_pc[s] = "dropped" /\ m_hb[s] = "exit" /\ m_closed[s]
        /\ m_dcmd[s].st = "done" /\ m_dcmd[s].id = ServerId(s)
        /\ m_dcmd[s].res = "false"

\* C23: a get_by_id that is connecting holds the pool mutex, and every
\* other task is outside get_by_id or waits for the mutex; while a task is
\* connecting, a get_by_id that waits stays waiting and has not returned,
\* whatever id it asks for, and it gets the mutex only in a step that starts
\* with no task connecting.
C23_LockOverConnect ==
    /\ [](\A t \in PoolTasks :
            p_pc[t] = "connecting"
              => /\ p_holder = t
                 /\ \A u \in PoolTasks \ {t} : p_pc[u] \in {"idle", "waiting"})
    /\ [][\A t, u \in PoolTasks :
            (p_pc[t] = "connecting" /\ u # t /\ p_pc[u] = "waiting")
              => /\ p_pc'[u] = "waiting"
                 /\ p_ret'[u] = NoClient
                 /\ p_returned' \subseteq
                       p_returned \cup {x \in p_conns' : x[1] = p_id[t]}]_vars

\* Task 1 is connecting for an id that has no entry while task 2 waits in a
\* get_by_id for an id whose client is in the map.
C23_Witness ==
    /\ p_pc[1] = "connecting" /\ p_clients[p_id[1]] = NoClient
    /\ p_pc[2] = "waiting" /\ p_clients[p_id[2]] # NoClient
    /\ p_id[1] # p_id[2]
    /\ p_ret[2] = NoClient

====
